---- MODULE Spec2Model ----
(***************************************************************************)
(* Scripts Manager (src/setup.py): a service that fetches a `scripts`      *)
(* folder by sparse checkout into /home/<user>/scripts and runs            *)
(* allow-listed scripts from it, blocking or as a line stream.             *)
(*                                                                         *)
(* Strings that the code takes apart (file names, keys) are tuples of      *)
(* pieces, so that name.endswith(".sh") is computed and not assumed.       *)
(* Every shell command (rm -rf, mkdir -p, cp -r, git ..., chown -R) is one *)
(* step: a request handler is a sequence of such steps, and requests are   *)
(* served by a thread pool, so steps of different requests interleave.     *)
(***************************************************************************)
EXTENDS Integers, Sequences, FiniteSets, TLC

VARIABLES target, staging, sync, run, stream, proc

vars == <<target, staging, sync, run, stream, proc>>

(***************************************************************************)
(* Bounds                                                                  *)
(***************************************************************************)
\* exit codes a script may return are 0..MaxExit
MaxExit == 2
\* a streamed script prints at most MaxLines lines
MaxLines == 2

(***************************************************************************)
(* Configuration (src/setup.py 22-39)                                      *)
(***************************************************************************)
REPO_URL_DEFAULT == "https://github.com/Rutomatrix/Intel-features"
BRANCH_DEFAULT == "main"
SCRIPT_USER == "rpi"
SCRIPTS_SUBDIR == "scripts"

AllowedKeys == {<<"os_flashing">>, <<"remove_os_flashing">>,
                <<"remove_streaming_hid">>, <<"streaming_hid">>}

\* key -> filename; a filename is the tuple of its pieces, last piece last
ALLOWED_SCRIPTS == [k \in AllowedKeys |-> k \o <<".sh">>]

\* name.endswith(".sh")
EndsWithSh(name) == Len(name) > 0 /\ name[Len(name)] = ".sh"

(***************************************************************************)
(* Permission bits                                                         *)
(***************************************************************************)
\* 0o111, the bits ensure_executable adds
EXEC_BITS == 73
\* S_IFREG, the file-type bits os.stat reports in st_mode for a regular file
S_IFREG == 32768
\* chmod(2) keeps the low 12 bits of the mode it is given (0o7777 + 1)
MODE_SPAN == 4096

RECURSIVE BitOr(_, _)
BitOr(a, b) ==
    IF a = 0 THEN b
    ELSE IF b = 0 THEN a
    ELSE (IF a % 2 = 1 \/ b % 2 = 1 THEN 1 ELSE 0) + 2 * BitOr(a \div 2, b \div 2)

RECURSIVE BitAnd(_, _)
BitAnd(a, b) ==
    IF a = 0 \/ b = 0 THEN 0
    ELSE (IF a % 2 = 1 /\ b % 2 = 1 THEN 1 ELSE 0) + 2 * BitAnd(a \div 2, b \div 2)

(***************************************************************************)
(* The filesystem: the target directory /home/<user>/scripts and the       *)
(* staging directory /tmp/scripts_sparse_clone                             *)
(***************************************************************************)
NONE == "None"
NoFiles == << >>

\* a directory: its files (name -> permission bits) and, when cp -r has
\* copied into an existing directory, the nested `scripts` directory
NoSub == [present |-> FALSE, files |-> NoFiles]
Absent == [present |-> FALSE, owner |-> NONE, files |-> NoFiles, sub |-> NoSub]
Dir(owner, files) == [present |-> TRUE, owner |-> owner, files |-> files, sub |-> NoSub]

\* the user the service runs as (root or another account than SCRIPT_USER)
SERVICE_USER == "service"

OS_FLASHING == <<"os_flashing", ".sh">>
STREAMING_HID == <<"streaming_hid", ".sh">>
EXTRA_SH == <<"extra", ".sh">>
README == <<"README", ".md">>

\* what the remote holds under scripts/ on each branch this model fetches:
\* permission bits as git checks them out (0o644 = 420, 0o755 = 493)
FORK == "https://example.org/fork"
Repos == {REPO_URL_DEFAULT, FORK}
Branches == {BRANCH_DEFAULT, "docs"}

RemoteHasBranch(repo, branch) ==
    \/ repo = REPO_URL_DEFAULT
    \/ repo = FORK /\ branch = BRANCH_DEFAULT

\* the scripts/ subtree of a branch; present = FALSE when the branch has none
RemoteScripts(repo, branch) ==
    IF repo = REPO_URL_DEFAULT /\ branch = BRANCH_DEFAULT
    THEN [present |-> TRUE,
          files |-> (OS_FLASHING :> 420) @@ (STREAMING_HID :> 493) @@ (README :> 420)]
    ELSE IF repo = FORK /\ branch = BRANCH_DEFAULT
    THEN [present |-> TRUE, files |-> (OS_FLASHING :> 493) @@ (EXTRA_SH :> 420)]
    ELSE NoSub

\* the staging directory: whether it exists and the state of the git
\* working tree in it
NoStaging == [exists |-> FALSE, git |-> FALSE, origin |-> NONE, fetched |-> {},
              sparse |-> "off", head |-> NONE]
EmptyStaging == [NoStaging EXCEPT !.exists = TRUE]

\* os.path.isdir(f"{tmp}/scripts"), and what cp -r would copy from there
StagedScripts(st) ==
    IF st.exists /\ st.head # NONE THEN RemoteScripts(st.origin, st.head) ELSE NoSub

(***************************************************************************)
(* Shell commands on the filesystem                                        *)
(***************************************************************************)
\* rm -rf dir
RmRf(dir) == Absent

\* cp -r src dest: a copy named dest when dest does not exist, a copy
\* inside dest (dest/scripts, merged over what is there) when it does
CpR(srcFiles, dest) ==
    IF ~dest.present
    THEN Dir(SERVICE_USER, srcFiles)
    ELSE [dest EXCEPT !.sub = [present |-> TRUE,
                               files |-> srcFiles @@ dest.sub.files]]

\* chown -R user:user dest
ChownR(user, dest) == IF dest.present THEN [dest EXCEPT !.owner = user] ELSE dest

\* os.stat(path).st_mode of a regular file, and os.chmod(path, mode)
StatMode(perm) == S_IFREG + perm
Chmod(mode) == mode % MODE_SPAN

\* a chmod that sets the execute bits and nothing else
EnsureExecutable_Only(dir, name) ==
    IF dir.present /\ name \in DOMAIN dir.files
    THEN [dir EXCEPT !.files[name] = Chmod(EXEC_BITS)]
    ELSE dir

\* ensure_executable(path): st_mode | 0o111; a missing file is ignored
EnsureExecutable(dir, name) ==
    IF dir.present /\ name \in DOMAIN dir.files
    THEN [dir EXCEPT !.files[name] = Chmod(BitOr(StatMode(dir.files[name]), EXEC_BITS))]
    ELSE dir

\* for name in os.listdir(dest_dir): if name.endswith(".sh"): ensure_executable
RECURSIVE EnsureAll(_, _)
EnsureAll(dir, names) ==
    IF names = {} THEN dir
    ELSE LET n == CHOOSE x \in names : TRUE
         IN EnsureAll(IF EndsWithSh(n) THEN EnsureExecutable(dir, n) ELSE dir,
                      names \ {n})

\* os.listdir(dir): the files and the nested directory, if any
ListDir(dir) ==
    DOMAIN dir.files \cup (IF dir.sub.present THEN {<<SCRIPTS_SUBDIR>>} ELSE {})

(***************************************************************************)
(* RepositorySync: POST /scripts/clone                                     *)
(***************************************************************************)
Syncs == {1, 2}

\* Python truthiness of an optional string field
Truthy(x) == x # NONE /\ x # ""

\* the request bodies: no body at all, or {repo_url?, branch?, clean}
NoBody == [body |-> FALSE, repo_url |-> NONE, branch |-> NONE, clean |-> TRUE]
CloneRequests ==
    {NoBody} \cup [body : {TRUE}, repo_url : {NONE, FORK}, branch : {NONE, "docs"},
                   clean : BOOLEAN]

\* clone_scripts, lines 230-232
ReqRepo(req) == IF req.body /\ Truthy(req.repo_url) THEN req.repo_url ELSE REPO_URL_DEFAULT
ReqBranch(req) == IF req.body /\ Truthy(req.branch) THEN req.branch ELSE BRANCH_DEFAULT
ReqClean(req) == IF req.body THEN req.clean ELSE TRUE

\* the six commands of `steps`, each with the argument it quotes
NSteps == 6
StepCmd(i, repo, branch) ==
    CASE i = 1 -> <<"git init">>
      [] i = 2 -> <<"git remote add origin", repo>>
      [] i = 3 -> <<"git fetch --depth 1 origin", branch>>
      [] i = 4 -> <<"git sparse-checkout init --cone">>
      [] i = 5 -> <<"git sparse-checkout set", SCRIPTS_SUBDIR>>
      [] i = 6 -> <<"git checkout", branch>>

\* what git needs of the working tree for command i to exit 0
GitCanSucceed(i, st, repo, branch) ==
    CASE i = 1 -> TRUE
      [] i = 2 -> st.git /\ st.origin = NONE
      [] i = 3 -> st.git /\ st.origin # NONE /\ RemoteHasBranch(st.origin, branch)
      [] i = 4 -> st.git
      [] i = 5 -> st.git
      [] i = 6 -> st.git /\ branch \in st.fetched

\* the working tree after command i exited 0
GitEffect(i, st, repo, branch) ==
    CASE i = 1 -> [st EXCEPT !.git = TRUE]
      [] i = 2 -> [st EXCEPT !.origin = repo]
      [] i = 3 -> [st EXCEPT !.fetched = @ \cup {branch}]
      [] i = 4 -> [st EXCEPT !.sparse = "cone"]
      [] i = 5 -> [st EXCEPT !.sparse = "set"]
      [] i = 6 -> [st EXCEPT !.head = branch]

\* subprocess.CompletedProcess of run_cmd
NoCp == [returncode |-> 0, stdout |-> "", stderr |-> ""]
\* what a failing git command may have printed
Diags == {[stdout |-> "", stderr |-> "fatal"], [stdout |-> "hint", stderr |-> "error"]}
GIT_FAILURE == 128

\* exceptions and responses
NoError == [type |-> NONE, text |-> "", cmd |-> << >>, stdout |-> "", stderr |-> ""]
NoResp == [status |-> 0, error |-> NoError, files |-> {}]

\* an error that names the command and drops what it printed
GitError_NoOutput(cmd, cp) ==
    [type |-> "RuntimeError", text |-> "[git]", cmd |-> cmd, stdout |-> "", stderr |-> ""]

\* RuntimeError(f"[git] {s}\nstdout:\n{cp.stdout}\nstderr:\n{cp.stderr}")
GitError(cmd, cp) ==
    [type |-> "RuntimeError", text |-> "[git]", cmd |-> cmd,
     stdout |-> cp.stdout, stderr |-> cp.stderr]
\* RuntimeError("Sparse checkout succeeded but 'scripts' folder not found in repo.")
NoScriptsError ==
    [NoError EXCEPT !.type = "RuntimeError",
                    !.text = "Sparse checkout succeeded but 'scripts' folder not found in repo."]
\* subprocess.CalledProcessError of a check=True command
CalledProcessError(cmd) ==
    [NoError EXCEPT !.type = "CalledProcessError", !.text = "returned non-zero exit status",
                    !.cmd = cmd]
\* FileNotFoundError of Popen(cwd=tmp) or os.listdir(dest_dir)
FileNotFoundError(path) ==
    [NoError EXCEPT !.type = "FileNotFoundError", !.text = "[Errno 2]", !.cmd = <<path>>]

\* raise HTTPException(status_code=500, detail=f"Clone failed: {e}")
CloneFailed(e) == [status |-> 500, error |-> e, files |-> {}]
\* the success body, lines 243-249
CloneOk(dir) == [status |-> 200, error |-> NoError,
                 files |-> IF dir.present THEN ListDir(dir) ELSE {}]

IdleSync == [pc |-> "idle", repo |-> NONE, branch |-> NONE, clean |-> FALSE,
             i |-> 0, ran |-> << >>, cp |-> NoCp, chownOk |-> FALSE,
             resp |-> NoResp, pre |-> Absent, prev |-> <<NONE, NONE>>]

SyncBusy(s) == sync[s].pc \notin {"idle", "ok", "failed"}

\* the handler raises: the request ends with the 500 response
SyncFails(s, e) == [sync EXCEPT ![s].pc = "failed", ![s].resp = CloneFailed(e)]

\* a handler that removes the target directory whatever `clean` says
Clean_Always(s) ==
    /\ sync[s].pc = "clean"
    /\ target' = RmRf(target)
    /\ sync' = [sync EXCEPT ![s].pc = "rm_tmp"]
    /\ UNCHANGED <<staging, run, stream, proc>>

\* lines 235-236: if clean and os.path.isdir(TARGET_DIR): rm -rf TARGET_DIR
Clean(s) ==
    /\ sync[s].pc = "clean"
    /\ target' = IF sync[s].clean /\ target.present THEN RmRf(target) ELSE target
    /\ sync' = [sync EXCEPT ![s].pc = "rm_tmp"]
    /\ UNCHANGED <<staging, run, stream, proc>>

\* line 79: rm -rf tmp (check=False)
RmTmp(s) ==
    /\ sync[s].pc = "rm_tmp"
    /\ staging' = NoStaging
    /\ sync' = [sync EXCEPT ![s].pc = "mkdir_tmp"]
    /\ UNCHANGED <<target, run, stream, proc>>

\* line 80: mkdir -p tmp (check=True)
MkdirTmp(s) ==
    /\ sync[s].pc = "mkdir_tmp"
    /\ \E ok \in BOOLEAN :
         IF ok
         THEN /\ staging' = [staging EXCEPT !.exists = TRUE]
              /\ sync' = [sync EXCEPT ![s].pc = "git", ![s].i = 1]
         ELSE /\ staging' = staging
              /\ sync' = SyncFails(s, CalledProcessError(<<"mkdir -p">>))
    /\ UNCHANGED <<target, run, stream, proc>>

\* lines 91-94: one turn of `for s in steps`
GitStep(s) ==
    /\ sync[s].pc = "git"
    /\ LET i == sync[s].i
           cmd == StepCmd(i, sync[s].repo, sync[s].branch)
       IN IF ~staging.exists
          THEN \* Popen cannot chdir to a cwd that is gone
               /\ sync' = SyncFails(s, FileNotFoundError("/tmp/scripts_sparse_clone"))
               /\ staging' = staging
          ELSE \E ok \in BOOLEAN, d \in Diags :
                 /\ ok => GitCanSucceed(i, staging, sync[s].repo, sync[s].branch)
                 /\ IF ok
                    THEN /\ staging' = GitEffect(i, staging, sync[s].repo, sync[s].branch)
                         /\ sync' = [sync EXCEPT ![s].ran = Append(@, cmd),
                                                 ![s].cp = NoCp,
                                                 ![s].i = IF i = NSteps THEN 0 ELSE i + 1,
                                                 ![s].pc = IF i = NSteps THEN "check" ELSE "git"]
                    ELSE LET cp == [returncode |-> GIT_FAILURE, stdout |-> d.stdout,
                                    stderr |-> d.stderr]
                         IN /\ staging' = staging
                            /\ sync' = [SyncFails(s, GitError(cmd, cp))
                                          EXCEPT ![s].ran = Append(@, cmd), ![s].cp = cp]
    /\ UNCHANGED <<target, run, stream, proc>>

\* a sync that copies without looking for the scripts folder
CheckSrcDir_Skip(s) ==
    /\ sync[s].pc = "check"
    /\ sync' = [sync EXCEPT ![s].pc = "rm_dest"]
    /\ UNCHANGED <<target, staging, run, stream, proc>>

\* lines 97-99: the scripts folder must be in the checkout
CheckSrcDir(s) ==
    /\ sync[s].pc = "check"
    /\ sync' = IF StagedScripts(staging).present
               THEN [sync EXCEPT ![s].pc = "rm_dest"]
               ELSE SyncFails(s, NoScriptsError)
    /\ UNCHANGED <<target, staging, run, stream, proc>>

\* a sync that removes the target directory only when asked to clean
RmDest_IfClean(s) ==
    /\ sync[s].pc = "rm_dest"
    /\ target' = IF sync[s].clean THEN RmRf(target) ELSE target
    /\ sync' = [sync EXCEPT ![s].pc = "cp"]
    /\ UNCHANGED <<staging, run, stream, proc>>

\* a sync that copies over the target directory without removing it
RmDest_Keep(s) ==
    /\ sync[s].pc = "rm_dest"
    /\ sync' = [sync EXCEPT ![s].pc = "cp"]
    /\ UNCHANGED <<target, staging, run, stream, proc>>

\* lines 101-102: makedirs(parent); rm -rf dest_dir (check=False)
RmDest(s) ==
    /\ sync[s].pc = "rm_dest"
    /\ target' = RmRf(target)
    /\ sync' = [sync EXCEPT ![s].pc = "cp"]
    /\ UNCHANGED <<staging, run, stream, proc>>

\* what a cp -r that exits nonzero may leave behind: nothing, or the
\* directory with no file or one file copied so far
PartialCopies(srcFiles, dest) ==
    {dest} \cup {CpR([n \in S |-> srcFiles[n]], dest) :
                   S \in {X \in SUBSET DOMAIN srcFiles :
                            Cardinality(X) <= 1 /\ X # DOMAIN srcFiles}}

\* lines 103-104: cp -r src_dir dest_dir (check=True)
CopyOut(s) ==
    /\ sync[s].pc = "cp"
    /\ LET src == StagedScripts(staging)
       IN \/ /\ src.present
             /\ target' = CpR(src.files, target)
             /\ sync' = [sync EXCEPT ![s].pc = "chown"]
          \/ /\ \E part \in (IF src.present THEN PartialCopies(src.files, target)
                             ELSE {target}) : target' = part
             /\ sync' = SyncFails(s, CalledProcessError(<<"cp -r">>))
    /\ UNCHANGED <<staging, run, stream, proc>>

\* a sync that gives up when chown fails
Chown_Fatal(s) ==
    /\ sync[s].pc = "chown"
    /\ \E ok \in BOOLEAN :
         /\ target' = IF ok THEN ChownR(SCRIPT_USER, target) ELSE target
         /\ sync' = IF ok THEN [sync EXCEPT ![s].pc = "chmod", ![s].chownOk = TRUE]
                    ELSE SyncFails(s, CalledProcessError(<<"chown -R">>))
    /\ UNCHANGED <<staging, run, stream, proc>>

\* lines 107-114: chown -R user:user dest_dir (check=False, errors ignored)
Chown(s) ==
    /\ sync[s].pc = "chown"
    /\ \E ok \in BOOLEAN :
         /\ target' = IF ok THEN ChownR(SCRIPT_USER, target) ELSE target
         /\ sync' = [sync EXCEPT ![s].pc = "chmod", ![s].chownOk = ok]
    /\ UNCHANGED <<staging, run, stream, proc>>

\* lines 117-119: add the execute bits to every .sh of os.listdir(dest_dir)
ExecBits(s) ==
    /\ sync[s].pc = "chmod"
    /\ IF target.present
       THEN /\ target' = EnsureAll(target, ListDir(target))
            /\ sync' = [sync EXCEPT ![s].pc = "respond"]
       ELSE /\ target' = target
            /\ sync' = SyncFails(s, FileNotFoundError("/home/rpi/scripts"))
    /\ UNCHANGED <<staging, run, stream, proc>>

\* lines 243-249: the success response lists the target directory
Respond(s) ==
    /\ sync[s].pc = "respond"
    /\ sync' = [sync EXCEPT ![s].pc = "ok", ![s].resp = CloneOk(target)]
    /\ UNCHANGED <<target, staging, run, stream, proc>>

(***************************************************************************)
(* PathResolver and the blocking run: POST /scripts/run/{key}              *)
(***************************************************************************)
\* keys a caller may send: the allow-list, and two that are not on it, one
\* of them the name of a file the fork's scripts folder holds
UnknownKeys == {EXTRA_SH, <<"extra">>}
Keys == AllowedKeys \cup UnknownKeys

\* the `args` query parameter: None, or a list
NoArgs == [given |-> FALSE, list |-> << >>]
ArgLists == {NoArgs, [given |-> TRUE, list |-> <<"foo bar">>]}
\* args or []
ArgsOrEmpty(a) == IF a.given /\ a.list # << >> THEN a.list ELSE << >>

\* os.path.isfile(os.path.join(TARGET_DIR, name))
IsFile(dir, name) == dir.present /\ name \in DOMAIN dir.files

\* a resolver that takes any key naming a file of the target directory
ScriptPathForKey_AnyFile(key, dir) ==
    IF IsFile(dir, key)
    THEN [status |-> 0, text |-> "", path |-> key]
    ELSE [status |-> 400, text |-> "Unknown script key", path |-> << >>]

\* a resolver that does not look for the file
ScriptPathForKey_NoIsFile(key, dir) ==
    IF key \notin DOMAIN ALLOWED_SCRIPTS
    THEN [status |-> 400, text |-> "Unknown script key", path |-> << >>]
    ELSE [status |-> 0, text |-> "", path |-> ALLOWED_SCRIPTS[key]]

\* _script_path_for_key: the HTTP status it raises (0 = none) and the path
ScriptPathForKey(key, dir) ==
    IF key \notin DOMAIN ALLOWED_SCRIPTS
    THEN [status |-> 400, text |-> "Unknown script key", path |-> << >>]
    ELSE IF ~IsFile(dir, ALLOWED_SCRIPTS[key])
    THEN [status |-> 404, text |-> "Script not found", path |-> ALLOWED_SCRIPTS[key]]
    ELSE [status |-> 0, text |-> "", path |-> ALLOWED_SCRIPTS[key]]

\* output is a tuple of bytes, text a tuple of characters
NL == "\n"
CR == "\r"
QUOTE == "\""
BACKSLASH == "\\"
\* a byte that is not valid UTF-8, and what decoding puts in its place
BAD_BYTE == "0xff"
REPLACEMENT == "U+FFFD"

\* what a script may print on each channel, and how it may exit
ScriptOut == {<< >>, <<"o", "u", "t", NL>>, <<"o", CR, NL>>, <<BAD_BYTE, NL>>}
ScriptErr == {<< >>, <<"e", "r", "r", NL>>, <<BAD_BYTE>>}
ExitCodes == 0 .. MaxExit

\* text=True: the captured bytes are decoded with errors="strict", which
\* raises UnicodeDecodeError on a byte that is not UTF-8 ...
Decodable(bytes) == \A i \in 1 .. Len(bytes) : bytes[i] # BAD_BYTE

\* ... and newlines are translated: "\r\n" and "\r" become "\n"
RECURSIVE UniversalNewlines(_)
UniversalNewlines(s) ==
    IF s = << >> THEN << >>
    ELSE IF Head(s) = CR
    THEN <<NL>> \o UniversalNewlines(IF Len(s) >= 2 /\ s[2] = NL
                                     THEN SubSeq(s, 3, Len(s)) ELSE Tail(s))
    ELSE <<Head(s)>> \o UniversalNewlines(Tail(s))

\* subprocess.run(..., text=True) of a child that has exited: the
\* CompletedProcess, or the exception communicate() raises
Communicate(child) ==
    IF Decodable(child.stdout) /\ Decodable(child.stderr)
    THEN [raised |-> FALSE, code |-> child.code,
          stdout |-> UniversalNewlines(child.stdout),
          stderr |-> UniversalNewlines(child.stderr)]
    ELSE [raised |-> TRUE, code |-> 0, stdout |-> << >>, stderr |-> << >>]
\* the shell's exit code when the file it is to run cannot be opened
NOT_FOUND_EXIT == 127

NoChild == [state |-> "none", stdout |-> << >>, stderr |-> << >>, code |-> 0]
NoResult == [script |-> << >>, path |-> << >>, args |-> << >>, returncode |-> 0,
             stdout |-> << >>, stderr |-> << >>, script_source |-> << >>]
NoRunResp == [status |-> 0, text |-> "", detail |-> NoResult]

\* shortcut: the request came in on a shortcut path; direct: the handler was
\* called as a plain function, so that `args` and `include_source` are the
\* Query(...) objects that are the parameters' defaults
IdleRun == [pc |-> "idle", key |-> << >>, args |-> NoArgs, include_source |-> FALSE,
            path |-> << >>, spawned |-> FALSE, child |-> NoChild,
            resp |-> NoRunResp, pre |-> Absent, after |-> <<NONE, NONE>>,
            shortcut |-> FALSE, direct |-> FALSE]

RunBusy == run.pc \notin {"idle", "done", "failed"}

\* _read_script_source(path): the file's text, or a placeholder
ReadScriptSource(dir, name) ==
    IF IsFile(dir, name) THEN <<"source of", name>> ELSE <<"<unable to read script>">>

\* the dict run_script_by_key returns, lines 151-161
RunResult(r, cp, dir) ==
    [script |-> r.key, path |-> r.path, args |-> ArgsOrEmpty(r.args),
     returncode |-> cp.code, stdout |-> cp.stdout, stderr |-> cp.stderr,
     script_source |-> IF r.include_source THEN ReadScriptSource(dir, r.path) ELSE << >>]

\* run_named_script, lines 260-264: nonzero exit becomes HTTP 500 with the result
RunResponse(result) ==
    IF result.returncode # 0
    THEN [status |-> 500, text |-> "", detail |-> result]
    ELSE [status |-> 200, text |-> "", detail |-> result]

\* line 138: script_path = _script_path_for_key(key)
RunResolve ==
    /\ run.pc = "resolve"
    /\ LET p == ScriptPathForKey(run.key, target)
       IN run' = IF p.status # 0
                 THEN [run EXCEPT !.pc = "failed",
                                  !.resp = [status |-> p.status, text |-> p.text,
                                            detail |-> NoResult]]
                 ELSE [run EXCEPT !.pc = "chmod", !.path = p.path]
    /\ UNCHANGED <<target, staging, sync, stream, proc>>

\* line 139: ensure_executable(script_path)
RunEnsureExecutable ==
    /\ run.pc = "chmod"
    /\ target' = EnsureExecutable(target, run.path)
    /\ run' = [run EXCEPT !.pc = "spawn"]
    /\ UNCHANGED <<staging, sync, stream, proc>>

\* an exception no handler catches: the framework answers 500
InternalServerError == [status |-> 500, text |-> "Internal Server Error", detail |-> NoResult]

\* lines 141-150: `for a in (args or [])` raises TypeError on a Query object,
\* which is truthy and not iterable; otherwise subprocess.run starts
\* `stdbuf -oL -eL /bin/bash <path> <args>`, and bash opens the script now
RunSpawn ==
    /\ run.pc = "spawn"
    /\ run' = IF run.direct
              THEN [run EXCEPT !.pc = "failed", !.resp = InternalServerError]
              ELSE [run EXCEPT !.pc = "wait", !.spawned = TRUE,
                               !.child = [NoChild EXCEPT !.state =
                                   IF IsFile(target, run.path) THEN "running" ELSE "nofile"]]
    /\ UNCHANGED <<target, staging, sync, stream, proc>>

\* the child runs to its end: the script prints and exits as it likes; with
\* no file to open, bash reports that on stderr and exits 127
RunChildExit ==
    /\ run.pc = "wait"
    /\ run.child.state \in {"running", "nofile"}
    /\ \E out \in ScriptOut, err \in ScriptErr, c \in ExitCodes :
         run' = [run EXCEPT !.child =
                    IF run.child.state = "running"
                    THEN [state |-> "exited", stdout |-> out, stderr |-> err, code |-> c]
                    ELSE [state |-> "exited", stdout |-> << >>,
                          stderr |-> <<"No such file or directory", NL>>,
                          code |-> NOT_FOUND_EXIT]]
    /\ UNCHANGED <<target, staging, sync, stream, proc>>

\* lines 143-161 and 260-264: subprocess.run returns, the result is built
\* and answered
RunCollect ==
    /\ run.pc = "wait"
    /\ run.child.state = "exited"
    /\ LET cp == Communicate(run.child)
       IN run' = IF cp.raised
                 THEN [run EXCEPT !.pc = "failed", !.resp = InternalServerError]
                 ELSE [run EXCEPT !.pc = "done",
                                  !.resp = RunResponse(RunResult(run, cp, target))]
    /\ UNCHANGED <<target, staging, sync, stream, proc>>

(***************************************************************************)
(* StreamFormatter: text is a tuple of characters, a chunk a tuple of      *)
(* characters too                                                          *)
(***************************************************************************)

\* the lines a script may print: bytes up to and including the newline; the
\* last line before end-of-file may lack it
FullLines == {<<"a", NL>>, <<QUOTE, BAD_BYTE, BACKSLASH, NL>>}
LastLines == {<<"z">>}

\* chunk.decode("utf-8", errors="replace")
Decode(bytes) == [i \in 1 .. Len(bytes) |->
                    IF bytes[i] = BAD_BYTE THEN REPLACEMENT ELSE bytes[i]]

\* s.rstrip("\n")
RECURSIVE RStripNL(_)
RStripNL(s) ==
    IF Len(s) > 0 /\ s[Len(s)] = NL THEN RStripNL(SubSeq(s, 1, Len(s) - 1)) ELSE s

\* json.dumps of a string body: quotes and backslashes escaped, non-ASCII as \uXXXX
RECURSIVE JsonEscape(_)
JsonEscape(s) ==
    IF s = << >> THEN << >>
    ELSE (CASE Head(s) = QUOTE -> <<BACKSLASH, QUOTE>>
            [] Head(s) = BACKSLASH -> <<BACKSLASH, BACKSLASH>>
            [] Head(s) = NL -> <<BACKSLASH, "n">>
            [] Head(s) = REPLACEMENT -> <<BACKSLASH, "ufffd">>
            [] OTHER -> <<Head(s)>>) \o JsonEscape(Tail(s))

\* json.dumps({"line": line})
JsonDumpsLine(line) == <<"{", QUOTE, "line", QUOTE, ": ", QUOTE>> \o JsonEscape(line)
                          \o <<QUOTE, "}">>

\* a formatter that does not strip the newline before encoding
FormatChunk_NoStrip(fmt, s) ==
    IF fmt = "plain" THEN s
    ELSE IF fmt = "jsonl" THEN JsonDumpsLine(s) \o <<NL>>
    ELSE <<"data: ">> \o JsonDumpsLine(s) \o <<NL, NL>>

\* _stream_proc_with_format: the chunk yielded for one decoded line s
FormatChunk(fmt, s) ==
    IF fmt = "plain" THEN s
    ELSE IF fmt = "jsonl" THEN JsonDumpsLine(RStripNL(s)) \o <<NL>>
    ELSE <<"data: ">> \o JsonDumpsLine(RStripNL(s)) \o <<NL, NL>>

Formats == {"plain", "jsonl", "sse"}

\* the media type of the response, lines 281-285
MediaType(fmt) ==
    IF fmt = "jsonl" THEN "application/x-ndjson"
    ELSE IF fmt = "sse" THEN "text/event-stream"
    ELSE "text/plain"

(***************************************************************************)
(* The streaming run: POST /scripts/run/{key}/stream                       *)
(***************************************************************************)
NoProc == [state |-> "none", printed |-> << >>, pipe |-> << >>]
NoStreamResp == [status |-> 0, text |-> "", media |-> ""]
IdleStream == [pc |-> "idle", key |-> << >>, fmt |-> "plain",
               path |-> << >>, spawned |-> FALSE, connected |-> FALSE,
               held |-> << >>, nread |-> 0, chunks |-> << >>,
               resp |-> NoStreamResp, pre |-> Absent, after |-> <<NONE, NONE>>]

\* the positions at which the response body is being generated
GenPcs == {"spawn", "read", "emit", "wait", "final"}
StreamBusy == stream.pc \in {"resolve", "chmod", "start"} \cup GenPcs
\* the child has been started and has not exited
ProcAlive == proc.state \in {"running", "closed"}

\* line 276: script_path = _script_path_for_key(key)
StreamResolve ==
    /\ stream.pc = "resolve"
    /\ LET p == ScriptPathForKey(stream.key, target)
       IN stream' = IF p.status # 0
                    THEN [stream EXCEPT !.pc = "failed",
                                        !.resp = [status |-> p.status, text |-> p.text,
                                                  media |-> ""]]
                    ELSE [stream EXCEPT !.pc = "chmod", !.path = p.path]
    /\ UNCHANGED <<target, staging, sync, run, proc>>

\* line 277: ensure_executable(script_path)
StreamEnsureExecutable ==
    /\ stream.pc = "chmod"
    /\ target' = EnsureExecutable(target, stream.path)
    /\ stream' = [stream EXCEPT !.pc = "start"]
    /\ UNCHANGED <<staging, sync, run, proc>>

\* lines 278-301: the StreamingResponse is returned; its body is gen()
StreamStart ==
    /\ stream.pc = "start"
    /\ stream' = [stream EXCEPT !.pc = "spawn", !.connected = TRUE,
                                !.resp = [status |-> 200, text |-> "",
                                          media |-> MediaType(stream.fmt)]]
    /\ UNCHANGED <<target, staging, sync, run, proc>>

\* lines 169-176: create_subprocess_shell; bash opens the script now, and
\* with no file to open it prints its complaint and exits 127
StreamSpawn ==
    /\ stream.pc = "spawn"
    /\ stream.connected
    /\ proc' = IF IsFile(target, stream.path)
               THEN [NoProc EXCEPT !.state = "running"]
               ELSE LET line == <<"No such file or directory", NL>>
                    IN [state |-> "exited", printed |-> <<line>>, pipe |-> <<line>>]
    /\ stream' = [stream EXCEPT !.pc = "read", !.spawned = TRUE]
    /\ UNCHANGED <<target, staging, sync, run>>

\* the script prints one more line to the merged pipe
ChildWrite ==
    /\ proc.state = "running"
    /\ Len(proc.printed) < MaxLines
    /\ proc.printed # << >> =>
         LET last == proc.printed[Len(proc.printed)] IN last[Len(last)] = NL
    /\ \E line \in FullLines \cup LastLines :
         proc' = [proc EXCEPT !.printed = Append(@, line), !.pipe = Append(@, line)]
    /\ UNCHANGED <<target, staging, sync, run, stream>>

\* the script closes its output and goes on running
ChildClose ==
    /\ proc.state = "running"
    /\ proc' = [proc EXCEPT !.state = "closed"]
    /\ UNCHANGED <<target, staging, sync, run, stream>>

\* the script exits of its own accord (its exit code is read by no one:
\* the value of proc.wait() is dropped)
ChildExit ==
    /\ proc.state \in {"running", "closed"}
    /\ proc' = [proc EXCEPT !.state = "exited"]
    /\ UNCHANGED <<target, staging, sync, run, stream>>

\* lines 181-186: chunk = await proc.stdout.readline(); a line is decoded and
\* handed up, end-of-file leaves the loop
StreamReadLine ==
    /\ stream.pc = "read"
    /\ stream.connected
    /\ IF proc.pipe # << >>
       THEN /\ LET line == Head(proc.pipe)
               IN line[Len(line)] = NL \/ proc.state \in {"closed", "exited"}
            /\ stream' = [stream EXCEPT !.pc = "emit", !.held = Decode(Head(proc.pipe)),
                                        !.nread = @ + 1]
            /\ proc' = [proc EXCEPT !.pipe = Tail(@)]
       ELSE /\ proc.state \in {"closed", "exited"}
            /\ stream' = [stream EXCEPT !.pc = "wait"]
            /\ proc' = proc
    /\ UNCHANGED <<target, staging, sync, run>>

\* a formatter that keeps the line and sends nothing
StreamEmit_Buffered ==
    /\ stream.pc = "emit"
    /\ stream.connected
    /\ stream' = [stream EXCEPT !.pc = "read"]
    /\ UNCHANGED <<target, staging, sync, run, proc>>

\* lines 192-205 and 289-290: the held line is formatted and sent
StreamEmit ==
    /\ stream.pc = "emit"
    /\ stream.connected
    /\ stream' = [stream EXCEPT !.pc = "read", !.held = << >>,
                                !.chunks = Append(@, FormatChunk(stream.fmt, stream.held))]
    /\ UNCHANGED <<target, staging, sync, run, proc>>

\* a stream that ends at end-of-file without waiting for the child
StreamWait_NoWait ==
    /\ stream.pc = "wait"
    /\ stream.connected
    /\ stream' = [stream EXCEPT !.pc = IF stream.fmt = "plain" THEN "final" ELSE "done"]
    /\ UNCHANGED <<target, staging, sync, run, proc>>

\* line 189: await proc.wait()
StreamWait ==
    /\ stream.pc = "wait"
    /\ stream.connected
    /\ proc.state = "exited"
    /\ stream' = [stream EXCEPT !.pc = IF stream.fmt = "plain" THEN "final" ELSE "done"]
    /\ UNCHANGED <<target, staging, sync, run, proc>>

\* lines 292-293: if format == "plain": yield ""
StreamFinal ==
    /\ stream.pc = "final"
    /\ stream.connected
    /\ stream' = [stream EXCEPT !.pc = "done", !.chunks = Append(@, << >>)]
    /\ UNCHANGED <<target, staging, sync, run, proc>>

\* the consumer goes away while the body is being generated
Disconnect ==
    /\ stream.pc \in GenPcs
    /\ stream.connected
    /\ stream' = [stream EXCEPT !.connected = FALSE]
    /\ UNCHANGED <<target, staging, sync, run, proc>>

\* the response task is cancelled: gen() and the generators under it are
\* closed where they stand; no code of theirs runs (there is no finally)
StreamCancel ==
    /\ stream.pc \in GenPcs
    /\ ~stream.connected
    /\ stream' = [stream EXCEPT !.pc = "cancelled", !.held = << >>]
    /\ UNCHANGED <<target, staging, sync, run, proc>>

(***************************************************************************)
(* Requests arriving.  Serve... admits a request when no other is being    *)
(* served and no child of an earlier one is still running, and drops the   *)
(* records of the requests answered before; Overlap... admits a sync while *)
(* another is in progress, as the thread pool does.                        *)
(***************************************************************************)
Quiet == (\A s \in Syncs : ~SyncBusy(s)) /\ ~RunBusy /\ ~StreamBusy /\ ~ProcAlive

\* nothing has been served yet
Fresh == (\A s \in Syncs : sync[s].pc = "idle") /\ run.pc = "idle" /\ stream.pc = "idle"

\* the sync that ended with success just before this request, if any
LastSync ==
    IF \E s \in Syncs : sync[s].pc = "ok"
    THEN LET s == CHOOSE x \in Syncs : sync[x].pc = "ok"
         IN <<sync[s].repo, sync[s].branch>>
    ELSE <<NONE, NONE>>

NewSync(req) ==
    [IdleSync EXCEPT !.pc = "clean", !.repo = ReqRepo(req), !.branch = ReqBranch(req),
                     !.clean = ReqClean(req), !.pre = target, !.prev = LastSync]
NewRun(key, args, src) ==
    [IdleRun EXCEPT !.pc = "resolve", !.key = key, !.args = args,
                    !.include_source = src, !.pre = target, !.after = LastSync]
NewStream(key, fmt) ==
    [IdleStream EXCEPT !.pc = "resolve", !.key = key, !.fmt = fmt,
                       !.pre = target, !.after = LastSync]

\* The POST routes in the order they are registered, paths as tuples of
\* segments; the router hands a request to the first route whose pattern
\* matches the whole path
KEY_PARAM == <<"{key}">>
RunPath(key) == <<<<"scripts">>, <<"run">>, key>>
ShortcutRoute(name, key) == [pattern |-> RunPath(key), handler |-> name, key |-> key]
PostRoutes ==
    << [pattern |-> <<<<"scripts">>, <<"clone">>>>, handler |-> "clone_scripts", key |-> << >>],
       [pattern |-> RunPath(KEY_PARAM), handler |-> "run_named_script", key |-> << >>],
       [pattern |-> RunPath(KEY_PARAM) \o <<<<"stream">>>>,
        handler |-> "run_named_script_stream", key |-> << >>],
       ShortcutRoute("run_os_flashing", <<"os_flashing">>),
       ShortcutRoute("run_remove_os_flashing", <<"remove_os_flashing">>),
       ShortcutRoute("run_remove_streaming_hid", <<"remove_streaming_hid">>),
       ShortcutRoute("run_streaming_hid", <<"streaming_hid">>) >>

RouteMatches(pattern, path) ==
    /\ Len(pattern) = Len(path)
    /\ \A i \in 1 .. Len(path) : pattern[i] = KEY_PARAM \/ pattern[i] = path[i]

MatchingRoutes(path) ==
    {i \in 1 .. Len(PostRoutes) : RouteMatches(PostRoutes[i].pattern, path)}

\* a router that prefers the route registered last
Dispatch_LastMatch(path) ==
    LET hits == MatchingRoutes(path)
    IN IF hits = {} THEN 0 ELSE CHOOSE i \in hits : \A j \in hits : j <= i

\* the index of the route that serves the path, 0 when none does
Dispatch(path) ==
    LET hits == MatchingRoutes(path)
    IN IF hits = {} THEN 0 ELSE CHOOSE i \in hits : \A j \in hits : i <= j

\* the run a route's handler starts for a request without query parameters:
\* run_named_script is given the key of the path and the parameters' values
\* (None and False); a shortcut handler calls run_named_script(key) as a
\* plain function
HandleRun(route, path) ==
    IF route.handler = "run_named_script"
    THEN NewRun(path[3], NoArgs, FALSE)
    ELSE [NewRun(route.key, NoArgs, FALSE) EXCEPT !.direct = TRUE]

\* served alone, a sync takes the first worker of the pool
FirstWorker == 1

ServeSync(req) ==
    /\ Quiet
    /\ sync' = [t \in Syncs |-> IF t = FirstWorker THEN NewSync(req) ELSE IdleSync]
    /\ run' = IdleRun
    /\ stream' = IdleStream
    /\ proc' = NoProc
    /\ UNCHANGED <<target, staging>>

ServeRun(key, args, src) ==
    /\ Quiet
    /\ run' = NewRun(key, args, src)
    /\ sync' = [t \in Syncs |-> IdleSync]
    /\ stream' = IdleStream
    /\ proc' = NoProc
    /\ UNCHANGED <<target, staging>>

\* POST /scripts/run/<key> for a key that has a shortcut route, no query
ServeShortcut(key) ==
    /\ Quiet
    /\ LET path == RunPath(key)
           i == Dispatch(path)
       IN /\ i # 0
          /\ run' = [HandleRun(PostRoutes[i], path) EXCEPT !.shortcut = TRUE]
    /\ sync' = [t \in Syncs |-> IdleSync]
    /\ stream' = IdleStream
    /\ proc' = NoProc
    /\ UNCHANGED <<target, staging>>

\* a streaming request is the first request or follows a successful sync
ServeStream(key, fmt) ==
    /\ Quiet
    /\ Fresh \/ LastSync # <<NONE, NONE>>
    /\ stream' = NewStream(key, fmt)
    /\ sync' = [t \in Syncs |-> IdleSync]
    /\ run' = IdleRun
    /\ proc' = NoProc
    /\ UNCHANGED <<target, staging>>

OverlapSync(s, req) ==
    /\ sync[s].pc = "idle"
    /\ sync' = [sync EXCEPT ![s] = [NewSync(req) EXCEPT !.prev = <<NONE, NONE>>]]
    /\ UNCHANGED <<target, staging, run, stream, proc>>

\* a blocking or a streaming run admitted while a sync may be in progress
OverlapRun(key, args, src) ==
    /\ run.pc = "idle" /\ stream.pc = "idle"
    /\ run' = [NewRun(key, args, src) EXCEPT !.after = <<NONE, NONE>>]
    /\ UNCHANGED <<target, staging, sync, stream, proc>>

OverlapStream(key, fmt) ==
    /\ run.pc = "idle" /\ stream.pc = "idle"
    /\ stream' = [NewStream(key, fmt) EXCEPT !.after = <<NONE, NONE>>]
    /\ UNCHANGED <<target, staging, sync, run, proc>>

(***************************************************************************)
(* Initial states and specifications                                       *)
(***************************************************************************)
OLD_SH == <<"old", ".sh">>

\* the target directory before the first request: not there, or left by
\* earlier use with files no remote holds and without execute bits
\* (0o644 = 420, 0o600 = 384)
InitTargets == {Absent,
                Dir(SERVICE_USER, (OS_FLASHING :> 420) @@ (OLD_SH :> 384))}

\* the staging directory before the first request: not there, or left by an
\* earlier run that stopped half way, or by one that ran to its end
InitStagings ==
    {NoStaging,
     [EmptyStaging EXCEPT !.git = TRUE, !.origin = FORK],
     [EmptyStaging EXCEPT !.git = TRUE, !.origin = FORK, !.fetched = {BRANCH_DEFAULT},
                          !.sparse = "set", !.head = BRANCH_DEFAULT]}

Init ==
    /\ target \in InitTargets
    /\ staging \in InitStagings
    /\ sync = [s \in Syncs |-> IdleSync]
    /\ run = IdleRun
    /\ stream = IdleStream
    /\ proc = NoProc

SyncStep(s) ==
    \/ Clean(s)
    \/ RmTmp(s)
    \/ MkdirTmp(s)
    \/ GitStep(s)
    \/ CheckSrcDir(s)
    \/ RmDest(s)
    \/ CopyOut(s)
    \/ Chown(s)
    \/ ExecBits(s)
    \/ Respond(s)

RunStep ==
    \/ RunResolve
    \/ RunEnsureExecutable
    \/ RunSpawn
    \/ RunChildExit
    \/ RunCollect

\* the steps the server takes for a streaming request
StreamStep ==
    \/ StreamResolve
    \/ StreamEnsureExecutable
    \/ StreamStart
    \/ StreamSpawn
    \/ StreamReadLine
    \/ StreamEmit
    \/ StreamWait
    \/ StreamFinal
    \/ StreamCancel

\* what the script and the consumer do
StreamEnv ==
    \/ ChildWrite
    \/ ChildClose
    \/ ChildExit
    \/ Disconnect

\* requests served one after the other
Next ==
    \/ \E req \in CloneRequests : ServeSync(req)
    \/ \E key \in Keys, args \in ArgLists, src \in BOOLEAN : ServeRun(key, args, src)
    \/ \E key \in Keys, fmt \in Formats : ServeStream(key, fmt)
    \/ \E key \in AllowedKeys : ServeShortcut(key)
    \/ \E s \in Syncs : SyncStep(s)
    \/ RunStep
    \/ StreamStep
    \/ StreamEnv

Spec == Init /\ [][Next]_vars

\* two syncs in progress at the same time, one request each
ConcNext ==
    \/ \E s \in Syncs, req \in CloneRequests : OverlapSync(s, req)
    \/ \E s \in Syncs : SyncStep(s)

ConcSpec == Init /\ [][ConcNext]_vars

\* one sync and one run (blocking or streaming) in progress at the same
\* time: the sync in a pool thread, the run in another or on the event loop
RaceNext ==
    \/ \E req \in CloneRequests : OverlapSync(FirstWorker, req)
    \/ \E key \in AllowedKeys : OverlapRun(key, NoArgs, FALSE)
    \/ \E key \in AllowedKeys : OverlapStream(key, "plain")
    \/ SyncStep(FirstWorker)
    \/ RunStep
    \/ StreamStep
    \/ StreamEnv

RaceSpec == Init /\ [][RaceNext]_vars

\* streaming requests alone; the server's steps are taken when they can be
\* (the event loop runs every ready task), the script and the consumer owe
\* nothing
StreamNext ==
    \/ \E key \in Keys, fmt \in Formats : ServeStream(key, fmt)
    \/ StreamStep
    \/ StreamEnv

FairSpec == Init /\ [][StreamNext]_vars /\ WF_vars(StreamStep)

(***************************************************************************)
(* Properties                                                              *)
(***************************************************************************)

\* C1: a request whose key is not on the allow-list, whatever the target
\* directory holds, ends in resolution with the client error 400 "Unknown
\* script key", in the blocking and in the streaming run, and never has a
\* child process.
C1_UnknownKeyNeverSpawns ==
    /\ (run.pc # "idle" /\ run.key \notin AllowedKeys) =>
          /\ run.pc \in {"resolve", "failed"}
          /\ ~run.spawned /\ run.child = NoChild
          /\ run.pc = "failed" =>
                run.resp.status = 400 /\ run.resp.text = "Unknown script key"
    /\ (stream.pc # "idle" /\ stream.key \notin AllowedKeys) =>
          /\ stream.pc \in {"resolve", "failed"}
          /\ ~stream.spawned /\ proc = NoProc
          /\ stream.pc = "failed" =>
                stream.resp.status = 400 /\ stream.resp.text = "Unknown script key"

\* a streaming request for a key off the list has been refused while the
\* target directory holds a file of exactly that name
C1_Witness ==
    /\ stream.pc = "failed"
    /\ stream.key \notin AllowedKeys
    /\ IsFile(target, stream.key)

\* C2: a request for an allow-listed key whose file was not in the target
\* directory when it was resolved ends with 404 "Script not found", leaves
\* the target directory as it was and has no child process.
C2_MissingFileIs404 ==
    /\ (run.pc \notin {"idle", "resolve"} /\ run.key \in AllowedKeys
          /\ ~IsFile(run.pre, ALLOWED_SCRIPTS[run.key])) =>
          /\ run.pc = "failed"
          /\ run.resp.status = 404 /\ run.resp.text = "Script not found"
          /\ target = run.pre
          /\ ~run.spawned /\ run.child = NoChild
    /\ (stream.pc \notin {"idle", "resolve"} /\ stream.key \in AllowedKeys
          /\ ~IsFile(stream.pre, ALLOWED_SCRIPTS[stream.key])) =>
          /\ stream.pc = "failed"
          /\ stream.resp.status = 404 /\ stream.resp.text = "Script not found"
          /\ target = stream.pre
          /\ ~stream.spawned /\ proc = NoProc

\* a blocking request has been refused with 404 for a key on the list while
\* the target directory is there, with other scripts in it
C2_Witness ==
    /\ run.pc = "failed"
    /\ run.key \in AllowedKeys
    /\ run.resp.status = 404
    /\ target.present /\ IsFile(target, OS_FLASHING)

\* C3: once the consumer of a streaming run has disconnected while the
\* child process is running, the child process is eventually not running.
C3_DisconnectEndsChild ==
    (~stream.connected /\ stream.pc \in GenPcs \cup {"cancelled"} /\ ProcAlive)
        ~> ~ProcAlive

\* a JSON string body read back: the text up to the closing quote, and what
\* follows the quote
RECURSIVE JsonString(_)
JsonString(s) ==
    IF s = << >> THEN [ok |-> FALSE, text |-> << >>, rest |-> << >>]
    ELSE IF Head(s) = QUOTE THEN [ok |-> TRUE, text |-> << >>, rest |-> Tail(s)]
    ELSE IF Head(s) = BACKSLASH
    THEN IF Len(s) < 2 THEN [ok |-> FALSE, text |-> << >>, rest |-> << >>]
         ELSE LET c == CASE s[2] = QUOTE -> QUOTE
                         [] s[2] = BACKSLASH -> BACKSLASH
                         [] s[2] = "n" -> NL
                         [] s[2] = "ufffd" -> REPLACEMENT
                         [] OTHER -> "?"
                  r == JsonString(SubSeq(s, 3, Len(s)))
              IN [r EXCEPT !.text = <<c>> \o @]
    ELSE LET r == JsonString(Tail(s)) IN [r EXCEPT !.text = <<Head(s)>> \o @]

\* chunk is a JSON object whose only field, "line", holds text
IsJsonLine(chunk, text) ==
    /\ Len(chunk) >= 8
    /\ SubSeq(chunk, 1, 6) = <<"{", QUOTE, "line", QUOTE, ": ", QUOTE>>
    /\ LET r == JsonString(SubSeq(chunk, 7, Len(chunk)))
       IN r.ok /\ r.text = text /\ r.rest = <<"}">>

\* a line without its newline
WithoutNewline(line) ==
    IF Len(line) > 0 /\ line[Len(line)] = NL THEN SubSeq(line, 1, Len(line) - 1) ELSE line

\* chunk is the encoding of line in the format
IsEncoding(fmt, chunk, line) ==
    CASE fmt = "plain" -> chunk = line
      [] fmt = "jsonl" ->
            /\ Len(chunk) >= 1 /\ chunk[Len(chunk)] = NL
            /\ IsJsonLine(SubSeq(chunk, 1, Len(chunk) - 1), WithoutNewline(line))
      [] fmt = "sse" ->
            /\ Len(chunk) >= 3 /\ chunk[1] = "data: "
            /\ chunk[Len(chunk)] = NL /\ chunk[Len(chunk) - 1] = NL
            /\ IsJsonLine(SubSeq(chunk, 2, Len(chunk) - 2), WithoutNewline(line))

C5_ExitCodeIsData ==
    /\ run.pc = "done" =>
          LET d == run.resp.detail
          IN /\ run.child.state = "exited"
             /\ d.returncode = run.child.code
             /\ d.stdout = run.child.stdout
             /\ d.stderr = run.child.stderr
             /\ run.resp.status = IF run.child.code = 0 THEN 200 ELSE 500
    /\ run.spawned => run.pc \in {"wait", "done"}

\* C6: when two syncs that overlapped have both answered success, the target
\* directory is there, holds no nested copy of the scripts folder, and its
\* files are exactly those of the branch one of the two asked for.
C6_OverlappingSyncsSerialize ==
    (\A s \in Syncs : sync[s].pc = "ok") =>
        \E s \in Syncs :
            /\ target.present
            /\ ~target.sub.present
            /\ DOMAIN target.files =
                 DOMAIN RemoteScripts(sync[s].repo, sync[s].branch).files

\* the target directory as a sync that has not reached its copy step leaves
\* it: removed if the request asked for a clean sync, untouched otherwise
LeftAlone(r) == target = (IF r.clean /\ r.pre.present THEN Absent ELSE r.pre)

\* C7: a sync whose six git commands all exited 0 and whose staging
\* directory holds no scripts folder ends with 500 and the error "Sparse
\* checkout succeeded but 'scripts' folder not found in repo", which is not
\* the error of a failed git command, and has copied nothing: the target
\* directory is as the request found it, or removed by the clean step.
C7_NoScriptsFolderFails ==
    \A s \in Syncs :
       LET r == sync[s]
       IN /\ (r.pc \notin {"idle", "clean", "rm_tmp", "mkdir_tmp", "git", "check"}
                /\ Len(r.ran) = NSteps /\ r.cp.returncode = 0
                /\ ~StagedScripts(staging).present) =>
                /\ r.pc = "failed"
                /\ r.resp.status = 500
                /\ r.resp.error.text =
                     "Sparse checkout succeeded but 'scripts' folder not found in repo."
                /\ r.resp.error.text # "[git]" /\ r.resp.error.cmd = << >>
                /\ LeftAlone(r)
          /\ (r.pc = "failed" /\ r.resp.error = NoScriptsError) =>
                Len(r.ran) = NSteps /\ r.cp.returncode = 0

\* a sync that was not to clean has failed for want of the scripts folder
\* with files in the target directory
C7_Witness ==
    /\ sync[FirstWorker].pc = "failed"
    /\ sync[FirstWorker].resp.error = NoScriptsError
    /\ ~sync[FirstWorker].clean
    /\ target.present /\ target.files # NoFiles

\* the git commands in the order the pipeline is to run them
GitOrder == <<"git init", "git remote add origin", "git fetch --depth 1 origin",
              "git sparse-checkout init --cone", "git sparse-checkout set",
              "git checkout">>

\* C8: the git commands a sync has run are the first of init, remote add,
\* fetch, sparse-checkout init, sparse-checkout set, checkout, in that
\* order; once one has exited nonzero the sync has failed with 500, run no
\* command after it and left the target directory alone, and the error names
\* that command and carries what it printed on stdout and on stderr; the
\* replace, chown and chmod steps come only after all six.
C8_StepsInOrderFailureAborts ==
    \A s \in Syncs :
       LET r == sync[s]
           n == Len(r.ran)
       IN /\ n <= NSteps
          /\ \A k \in 1 .. n : r.ran[k][1] = GitOrder[k]
          /\ r.pc = "git" => r.i = n + 1
          /\ r.cp.returncode # 0 =>
                /\ r.pc = "failed" /\ r.resp.status = 500
                /\ n >= 1
                /\ r.resp.error.text = "[git]"
                /\ r.resp.error.cmd = r.ran[n]
                /\ r.resp.error.stdout = r.cp.stdout
                /\ r.resp.error.stderr = r.cp.stderr
                /\ LeftAlone(r)
          /\ r.pc \in {"check", "rm_dest", "cp", "chown", "chmod", "respond", "ok"} =>
                n = NSteps /\ r.cp.returncode = 0

\* the fetch, third of the six, has failed with output on both channels
\* while the target directory held files
C8_Witness ==
    /\ sync[FirstWorker].pc = "failed"
    /\ Len(sync[FirstWorker].ran) = 3
    /\ sync[FirstWorker].cp.returncode # 0
    /\ sync[FirstWorker].cp.stdout # "" /\ sync[FirstWorker].cp.stderr # ""
    /\ target.present

\* C9: a sync that succeeds straight after a successful sync of the same
\* repository and branch leaves the target directory with the files and the
\* permission bits the first one left.
C9_SyncTwiceSameAsOnce ==
    \A s \in Syncs :
       LET r == sync[s]
       IN (r.pc = "ok" /\ r.prev = <<r.repo, r.branch>>) =>
             /\ target.present /\ r.pre.present
             /\ target.files = r.pre.files
             /\ target.sub = r.pre.sub
             /\ r.resp.files = DOMAIN r.pre.files

\* the fork has been synced twice in a row, the second time without clean
C9_Witness ==
    /\ sync[FirstWorker].pc = "ok"
    /\ sync[FirstWorker].prev = <<FORK, BRANCH_DEFAULT>>
    /\ sync[FirstWorker].repo = FORK
    /\ ~sync[FirstWorker].clean

\* the file of an allow-listed key is in the scripts folder of a branch
Fetched(key, rb) ==
    /\ key \in AllowedKeys
    /\ rb # <<NONE, NONE>>
    /\ RemoteScripts(rb[1], rb[2]).present
    /\ ALLOWED_SCRIPTS[key] \in DOMAIN RemoteScripts(rb[1], rb[2]).files

\* C10: when a sync has answered success, every .sh file of the target
\* directory has the execute bits and every file still has each permission
\* bit it was checked out with; and a blocking or streaming run of an
\* allow-listed key whose file was fetched, admitted straight after that
\* sync, is not refused by the resolution of its key and spawns the script,
\* which bash finds (a stream whose consumer left before the body was started
\* spawns nothing).
C10_ExecutableAfterSync ==
    /\ \A s \in Syncs :
          sync[s].pc = "ok" =>
             LET src == RemoteScripts(sync[s].repo, sync[s].branch).files
             IN /\ target.present /\ DOMAIN target.files = DOMAIN src
                /\ \A n \in DOMAIN target.files :
                      /\ EndsWithSh(n) => BitAnd(target.files[n], EXEC_BITS) = EXEC_BITS
                      /\ BitAnd(target.files[n], src[n]) = src[n]
    /\ Fetched(run.key, run.after) =>
          /\ run.pc = "failed" => run.spawned
          /\ run.pc \in {"wait", "done"} =>
                run.spawned /\ run.child.state # "nofile"
                  /\ run.child.code # NOT_FOUND_EXIT
    /\ Fetched(stream.key, stream.after) =>
          /\ stream.pc # "failed"
          /\ stream.pc \in (GenPcs \ {"spawn"}) \cup {"done"} => stream.spawned
          /\ stream.spawned =>
                /\ proc.state # "none"
                /\ \A i \in 1 .. Len(proc.printed) :
                      proc.printed[i][1] # "No such file or directory"

\* os_flashing.sh, checked out without execute bits, has been streamed to
\* its end straight after the sync that fetched it
C10_Witness ==
    /\ stream.pc = "done"
    /\ stream.key = <<"os_flashing">>
    /\ stream.after = <<REPO_URL_DEFAULT, BRANCH_DEFAULT>>
    /\ Len(proc.printed) > 0

\* bash could not open the script of the blocking run, of the streaming run
RunNoFile == run.spawned /\ run.child.stderr = <<"No such file or directory", NL>>
StreamNoFile ==
    stream.spawned /\ proc.printed # << >>
      /\ proc.printed[1] = <<"No such file or directory", NL>>

\* C11: a run whose script could not be opened when the child was launched
\* is answered with a server error that carries no execution result, and a
\* stream whose script could not be opened does not end as a completed
\* stream.
C11_LaunchFailureIsDistinct ==
    /\ (RunNoFile /\ run.pc \in {"done", "failed"}) =>
          /\ run.resp.status = 500
          /\ run.resp.detail = NoResult
    /\ StreamNoFile => stream.pc # "done"

\* C14: a run whose key resolved (the file was there at the existence check)
\* and whose script is gone when bash is to open it ends with 404 "Script
\* not found", in the blocking and in the streaming mode; it is answered
\* neither with an unhandled error nor with an execution result.
C14_VanishedScriptIsMissing ==
    /\ (RunNoFile /\ run.pc \in {"done", "failed"}) =>
          /\ run.pc = "failed"
          /\ run.resp.status = 404 /\ run.resp.text = "Script not found"
    /\ (StreamNoFile /\ stream.pc \in {"done", "failed"}) =>
          /\ stream.pc = "failed"
          /\ stream.resp.status = 404 /\ stream.resp.text = "Script not found"

C13_CompletionAfterEofAndExit ==
    /\ stream.pc \in {"wait", "final", "done"} =>
          /\ proc.pipe = << >>
          /\ proc.state \in {"closed", "exited"}
          /\ stream.nread = Len(proc.printed)
          /\ Len(stream.chunks) >= Len(proc.printed)
          /\ \A i \in 1 .. Len(proc.printed) :
                stream.chunks[i] = FormatChunk(stream.fmt, Decode(proc.printed[i]))
    /\ stream.pc \in {"final", "done"} => proc.state = "exited"

\* a jsonl stream of a script that printed two lines has been completed
C13_Witness ==
    /\ stream.pc = "done" /\ stream.fmt = "jsonl"
    /\ Len(proc.printed) = 2
    /\ proc.state = "exited"

\* the chunks sent for lines (the closing empty chunk of a plain stream is
\* not one)
LineChunks ==
    IF stream.pc = "done" /\ stream.fmt = "plain"
    THEN Len(stream.chunks) - 1 ELSE Len(stream.chunks)

\* C16: in every format the lines read from the child are never more than
\* one ahead of the chunks sent: while a line is waiting to be sent it is the
\* only one, and a line is read only when every line read before has been
\* sent.
C16_AtMostOneLineHeld ==
    /\ stream.nread - LineChunks \in {0, 1}
    /\ stream.pc = "emit" => stream.nread = LineChunks + 1
    /\ stream.pc \in {"read", "wait", "final", "done"} => stream.nread = LineChunks

\* the second line of an sse stream has been read and the first has been sent
C16_Witness ==
    /\ stream.pc = "emit" /\ stream.fmt = "sse"
    /\ stream.nread = 2 /\ Len(stream.chunks) = 1
    /\ stream.held # << >>

\* C15: the step of a sync that follows the copy, the chown, goes on to the
\* execute-bit step whether chown succeeded or not; the execute-bit step
\* leaves every .sh file of the target directory with the execute bits and
\* goes on to the response; and the response is the success response.
C15_ChownNeverAborts ==
    [][\A s \in Syncs :
          sync'[s] # sync[s] =>
             /\ sync[s].pc = "chown" => sync'[s].pc = "chmod"
             /\ sync[s].pc = "chmod" =>
                   /\ sync'[s].pc = "respond"
                   /\ sync'[s].chownOk = sync[s].chownOk
                   /\ \A n \in DOMAIN target'.files :
                         EndsWithSh(n) =>
                            BitAnd(target'.files[n], EXEC_BITS) = EXEC_BITS
             /\ sync[s].pc = "respond" =>
                   sync'[s].pc = "ok" /\ sync'[s].resp.status = 200]_vars

\* a sync has answered success although its chown failed: the files are
\* still the service user's, and os_flashing.sh has the execute bits
C15_Witness ==
    \E s \in Syncs :
       /\ sync[s].pc = "ok" /\ ~sync[s].chownOk
       /\ target.present /\ target.owner = SERVICE_USER
       /\ OS_FLASHING \in DOMAIN target.files
       /\ BitAnd(target.files[OS_FLASHING], EXEC_BITS) = EXEC_BITS

\* C17: when a sync has answered success, with clean true or false, the
\* names in the target directory are exactly the names in the scripts folder
\* of the branch it fetched and there is no nested directory: no name that
\* was in the target directory only before the sync is still there.
C17_NoFileSurvivesSync ==
    \A s \in Syncs :
       sync[s].pc = "ok" =>
          LET src == RemoteScripts(sync[s].repo, sync[s].branch)
          IN /\ src.present /\ target.present
             /\ ListDir(target) = DOMAIN src.files
             /\ \A n \in DOMAIN sync[s].pre.files :
                   n \notin DOMAIN src.files => n \notin ListDir(target)
             /\ sync[s].resp.files = DOMAIN src.files

\* a sync with clean = false has answered success over a target directory
\* that held old.sh, which no remote has
C17_Witness ==
    \E s \in Syncs :
       /\ sync[s].pc = "ok" /\ ~sync[s].clean
       /\ sync[s].pre.present /\ OLD_SH \in DOMAIN sync[s].pre.files
       /\ OLD_SH \notin DOMAIN target.files

\* the failures of a sync before anything is copied: a VCS step, or the
\* check for the scripts folder
FailedBeforeCopy(r) ==
    /\ r.pc = "failed"
    /\ \/ r.resp.error.text = "[git]"
       \/ r.resp.error = NoScriptsError

\* C18: when a sync with clean = false has failed at a VCS step or at the
\* check for the scripts folder, the target directory is as it was when the
\* request came in, names and permission bits, so that every key resolves
\* as it did before.
C18_FailedUncleanSyncLeavesTarget ==
    \A s \in Syncs :
       (FailedBeforeCopy(sync[s]) /\ ~sync[s].clean) =>
          /\ target = sync[s].pre
          /\ \A k \in AllowedKeys :
                ScriptPathForKey(k, target) = ScriptPathForKey(k, sync[s].pre)

\* a sync with clean = false has failed at `git fetch` over a target
\* directory that holds os_flashing.sh
C18_Witness ==
    \E s \in Syncs :
       /\ sync[s].pc = "failed" /\ ~sync[s].clean
       /\ sync[s].resp.error.text = "[git]"
       /\ Len(sync[s].ran) = 3
       /\ sync[s].pre.present
       /\ ScriptPathForKey(<<"os_flashing">>, target).status = 0

\* C19: when a sync with clean = true has failed at a step after the removal
\* of the target directory, the target directory is absent and every
\* allow-listed key resolves to 404 "Script not found".
C19_FailedCleanSyncLeavesNothing ==
    \A s \in Syncs :
       (sync[s].pc = "failed" /\ sync[s].clean) =>
          /\ ~target.present
          /\ \A k \in AllowedKeys : ScriptPathForKey(k, target).status = 404

\* C20: while a sync is between the reset of its staging directory and its
\* copy into the target directory, no step of another sync changes the
\* staging directory.
C20_StagingIsPrivate ==
    [][\A s \in Syncs :
          (sync[s].pc \in {"mkdir_tmp", "git", "check", "rm_dest", "cp"}
             /\ sync'[s] = sync[s]) => staging' = staging]_vars

====
